---- MODULE Spec2Model ----
(***************************************************************************)
(* Purchase operations of obar_backend (obar/apis/operation_namespace.py). *)
(*                                                                         *)
(* The persisted store is the committed content of the Product, Purchase   *)
(* and PurchaseItem tables.  Every request-handling worker owns one        *)
(* db.session: the writes staged in it (db.session.add, attribute          *)
(* assignment) reach the persisted store only through db.session.commit()  *)
(* and are discarded by db.session.remove().  A query made through a       *)
(* session sees the persisted store overlaid with that session's own       *)
(* staged writes.  A worker serves one request at a time; requests of      *)
(* different workers interleave between the statements that touch the      *)
(* store.                                                                  *)
(*                                                                         *)
(* Spec is the module against a store that never makes a statement wait;   *)
(* SpecLocks is the same handlers against a store that serialises access   *)
(* to each Product row; SpecCheck runs OperationCheckPurchase.get against  *)
(* every Purchase table of the bounds.                                     *)
(***************************************************************************)
EXTENDS Integers, Sequences, FiniteSets, TLC

\* ----------------------------------------------------------------- bounds
MaxStock == 1
MaxCartLen == 2
MaxQuantity == 2
MaxPurchases == 2

\* ------------------------------------------------------------ the universe
Workers == {"w1", "w2"}
\* rows of the Product table
Products == {"A", "B"}
\* product codes a request may carry: "X" names no row
Codes == Products \cup {"X"}
\* rows of the Customer table (first and last name)
CustomerTable ==
    [alice |-> [first |-> "Alice", last |-> "Rossi"],
     bob   |-> [first |-> "Bob", last |-> "Bianchi"]]
Customers == DOMAIN CustomerTable
\* identities a token may decode to: "ghost" has no Customer row
Identities == Customers \cup {"ghost"}
\* Product.product_availability as the store may hold it: A is on sale
Availabilities == {f \in [Products -> BOOLEAN] : f["A"]}
PurchaseIds == 1..MaxPurchases
\* request.json['purchase_details']
CartLine == [product_code : Codes, purchase_quantity : 0..MaxQuantity]
RECURSIVE SeqsUpTo(_, _)
SeqsUpTo(S, n) ==
    IF n = 0 THEN {<<>>}
    ELSE LET shorter == SeqsUpTo(S, n - 1)
         IN  shorter \cup {Append(s, x) : s \in {t \in shorter : Len(t) = n - 1}, x \in S}
Carts == SeqsUpTo(CartLine, MaxCartLen)

VARIABLES
    productQuantity,      \* persisted Product.product_quantity
    productAvailability,  \* persisted Product.product_availability
    purchases,            \* persisted Purchase rows
    purchaseItems,        \* persisted PurchaseItem rows
    session,              \* per worker: the writes staged in db.session
    pc,                   \* per worker: position inside OperationAPI.post
    req,                  \* per worker: the submit request being served
    resp,                 \* the response returned by the latest step, if any
    nextId,               \* next purchase_code_uuid to generate
    lastFlagOp            \* per purchase: the last successful gift / undo

vars == <<productQuantity, productAvailability, purchases, purchaseItems,
          session, pc, req, resp, nextId, lastFlagOp>>

store == <<productQuantity, productAvailability, purchases, purchaseItems>>

\* ------------------------------------------------------------- db.session
EmptySession == [new |-> {}, items |-> {}, dirty |-> {}]

\* db.session.remove(): the staged writes are discarded
SessionRemove(s) == EmptySession

\* quantity of product p as a query through session s sees it
QuantitySeen(s, p) ==
    IF \E d \in s.dirty : d.code = p
    THEN (CHOOSE d \in s.dirty : d.code = p).quantity
    ELSE productQuantity[p]

\* Purchase rows a query through session s sees
PurchasesSeen(s) == purchases \cup s.new

\* persisted Product quantities after db.session.commit() of session s
CommitQuantity(s) == [p \in Products |-> QuantitySeen(s, p)]

\* persisted Purchase rows after db.session.commit() of session s
CommitPurchases(s) == PurchasesSeen(s)

\* persisted PurchaseItem rows after db.session.commit() of session s
CommitItems(s) == purchaseItems \cup s.items

\* ------------------------------------------------------- OperationAPI.post
\* PreconditionResult without the quantity check of lines 87-88
PreconditionResultNoQuantityCheck(customer, cart) ==
    IF customer \notin Customers THEN "AttributeError"
    ELSE IF Cardinality({cart[i].product_code : i \in 1..Len(cart)}) # Len(cart)
         THEN "DuplicateProduct"
    ELSE "ok"

\* lines 72-95: what the checks made before staging answer.  Line 78 reads
\* customer.customer_mail_address before line 79 tests customer for None, so
\* a missing customer ends in AttributeError and line 80 is never reached.
PreconditionResult(customer, cart) ==
    IF customer \notin Customers THEN "AttributeError"
    ELSE IF \E i \in 1..Len(cart) : cart[i].purchase_quantity <= 0
         THEN "InvalidQuantity"
    ELSE IF Cardinality({cart[i].product_code : i \in 1..Len(cart)}) # Len(cart)
         THEN "DuplicateProduct"
    ELSE "ok"

\* CheckLine without the comparison of line 109
CheckLineNoCompare(exists, available, stock, wanted) ==
    IF ~exists THEN "ProductNotFound"
    ELSE IF ~available THEN "ProductUnavailable"
    ELSE IF stock <= 0 THEN "OutOfStock"
    ELSE "ok"

\* CheckLine with the stock checks ahead of the availability check
CheckLineStockFirst(exists, available, stock, wanted) ==
    IF ~exists THEN "ProductNotFound"
    ELSE IF stock <= 0 THEN "OutOfStock"
    ELSE IF stock < wanted THEN "InsufficientStock"
    ELSE IF ~available THEN "ProductUnavailable"
    ELSE "ok"

\* lines 100-111: the checks on one cart line, in the code's order
CheckLine(exists, available, stock, wanted) ==
    IF ~exists THEN "ProductNotFound"
    ELSE IF ~available THEN "ProductUnavailable"
    ELSE IF stock <= 0 THEN "OutOfStock"
    ELSE IF stock < wanted THEN "InsufficientStock"
    ELSE "ok"

\* lines 101-111: the session a failing line leaves behind.  The paths of
\* lines 103-111 call db.session.remove(); the path of line 102 does not.
SessionAfterFailure(result, s) ==
    IF result = "ProductNotFound" THEN s ELSE SessionRemove(s)

\* lines 113-118: the line's decrement and PurchaseItem staged in session s
StageLine(s, purchase, code, wanted) ==
    [s EXCEPT
        !.dirty = {d \in s.dirty : d.code # code}
                  \cup {[code |-> code, quantity |-> QuantitySeen(s, code) - wanted]},
        !.items = s.items \cup {[purchase |-> purchase, product |-> code,
                                 quantity |-> wanted]}]

\* no submit in progress
Idle == [customer |-> "ghost", cart |-> <<>>, line |-> 0, purchase |-> 0]
NoResponse == [op |-> "none", result |-> "none", purchase |-> 0, body |-> <<>>]

Respond(op, result, purchase, body) ==
    [op |-> op, result |-> result, purchase |-> purchase, body |-> body]

\* line 77, dt.utcnow(): the clock advances from one purchase to the next
UtcNow == 100 + nextId

\* lines 72-98 for one request: look the customer up, build the Purchase
\* validate the cart, add the Purchase to the session
SubmitRequest(w, customer, cart) ==
    LET r == PreconditionResult(customer, cart) IN
    /\ pc[w] = "idle"
    /\ IF r = "ok"
       THEN /\ nextId <= MaxPurchases
            /\ session' = [session EXCEPT ![w].new = @ \cup
                    {[id |-> nextId, customer |-> customer, date |-> UtcNow,
                      gifted |-> FALSE]}]
            /\ nextId' = nextId + 1
            /\ req' = [req EXCEPT ![w] = [customer |-> customer, cart |-> cart,
                                          line |-> 1, purchase |-> nextId]]
            /\ pc' = [pc EXCEPT ![w] = "lines"]
            /\ resp' = NoResponse
       ELSE /\ resp' = Respond("submit", r, 0, <<>>)
            /\ UNCHANGED <<session, nextId, req, pc>>
    /\ UNCHANGED <<store, lastFlagOp>>

\* The requests OperationAPI.post may be entered with: the identity of the
\* token and a cart.  A rejected request changes nothing but the response,
\* which carries only the rejection, so one request per rejection stands
\* for all the requests rejected alike.
Requests == Identities \X Carts
AcceptedRequests == {rq \in Requests : PreconditionResult(rq[1], rq[2]) = "ok"}
Rejections == {PreconditionResult(rq[1], rq[2]) : rq \in Requests} \ {"ok"}
RejectedRequests ==
    {CHOOSE rq \in Requests : PreconditionResult(rq[1], rq[2]) = r : r \in Rejections}

SubmitBegin(w) ==
    \E rq \in AcceptedRequests \cup RejectedRequests : SubmitRequest(w, rq[1], rq[2])

\* SubmitLine with the decrement of line 113 written straight to the
\* persisted row instead of staged in the session
SubmitLineWriteThrough(w) ==
    /\ pc[w] = "lines"
    /\ req[w].line <= Len(req[w].cart)
    /\ LET details == req[w].cart[req[w].line]
           code == details.product_code
           wanted == details.purchase_quantity
           exists == code \in Products
           r == CheckLine(exists,
                          exists /\ productAvailability[code],
                          IF exists THEN QuantitySeen(session[w], code) ELSE 0,
                          wanted)
       IN  IF r = "ok"
           THEN /\ productQuantity' = [productQuantity EXCEPT ![code] = @ - wanted]
                /\ session' = [session EXCEPT ![w].items = @ \cup
                        {[purchase |-> req[w].purchase, product |-> code,
                          quantity |-> wanted]}]
                /\ req' = [req EXCEPT ![w].line = @ + 1]
                /\ resp' = NoResponse
                /\ UNCHANGED pc
           ELSE /\ session' = [session EXCEPT ![w] = SessionAfterFailure(r, @)]
                /\ resp' = Respond("submit", r, req[w].purchase, <<>>)
                /\ req' = [req EXCEPT ![w] = Idle]
                /\ pc' = [pc EXCEPT ![w] = "idle"]
                /\ UNCHANGED productQuantity
    /\ UNCHANGED <<productAvailability, purchases, purchaseItems, nextId, lastFlagOp>>

\* lines 99-118: one turn of the loop over the cart
SubmitLine(w) ==
    /\ pc[w] = "lines"
    /\ req[w].line <= Len(req[w].cart)
    /\ LET details == req[w].cart[req[w].line]
           code == details.product_code
           wanted == details.purchase_quantity
           exists == code \in Products
           r == CheckLine(exists,
                          exists /\ productAvailability[code],
                          IF exists THEN QuantitySeen(session[w], code) ELSE 0,
                          wanted)
       IN  IF r = "ok"
           THEN /\ session' = [session EXCEPT ![w] =
                        StageLine(@, req[w].purchase, code, wanted)]
                /\ req' = [req EXCEPT ![w].line = @ + 1]
                /\ resp' = NoResponse
                /\ UNCHANGED pc
           ELSE /\ session' = [session EXCEPT ![w] = SessionAfterFailure(r, @)]
                /\ resp' = Respond("submit", r, req[w].purchase, <<>>)
                /\ req' = [req EXCEPT ![w] = Idle]
                /\ pc' = [pc EXCEPT ![w] = "idle"]
    /\ UNCHANGED <<store, nextId, lastFlagOp>>

\* lines 119-120: commit the session and return the purchase id
SubmitCommit(w) ==
    /\ pc[w] = "lines"
    /\ req[w].line > Len(req[w].cart)
    /\ productQuantity' = CommitQuantity(session[w])
    /\ purchases' = CommitPurchases(session[w])
    /\ purchaseItems' = CommitItems(session[w])
    /\ session' = [session EXCEPT ![w] = EmptySession]
    /\ resp' = Respond("submit", "ok", req[w].purchase, <<>>)
    /\ req' = [req EXCEPT ![w] = Idle]
    /\ pc' = [pc EXCEPT ![w] = "idle"]
    /\ UNCHANGED <<productAvailability, nextId, lastFlagOp>>

\* ------------------------------------------- gift_purchase / undo_purchase
\* GiftResult without the idempotence guard
GiftResultNoGuard(found, owner, requester, gifted) ==
    IF ~found THEN "PurchaseNotFound"
    ELSE IF owner # requester THEN "NotOwner"
    ELSE "ok"

\* GiftResult with the idempotence guard ahead of the ownership check
GiftResultGuardFirst(found, owner, requester, gifted) ==
    IF ~found THEN "PurchaseNotFound"
    ELSE IF gifted THEN "AlreadyGifted"
    ELSE IF owner # requester THEN "NotOwner"
    ELSE "ok"

\* GiftWorkflow: lookup, ownership check, idempotence guard
GiftResult(found, owner, requester, gifted) ==
    IF ~found THEN "PurchaseNotFound"
    ELSE IF owner # requester THEN "NotOwner"
    ELSE IF gifted THEN "AlreadyGifted"
    ELSE "ok"

\* UndoWorkflow: the same lookup and ownership check, the opposite guard
UndoResult(found, owner, requester, gifted) ==
    IF ~found THEN "PurchaseNotFound"
    ELSE IF owner # requester THEN "NotOwner"
    ELSE IF ~gifted THEN "NotGifted"
    ELSE "ok"

\* SetGifted writing the flag to every row instead of the row named
SetGiftedAll(rows, id, flag) ==
    {[r EXCEPT !.gifted = flag] : r \in rows}

\* the Purchase rows with purchase_gifted of row id set to flag
SetGifted(rows, id, flag) ==
    {IF r.id = id THEN [r EXCEPT !.gifted = flag] ELSE r : r \in rows}

\* the row of purchase id among rows (a row that matches nothing when absent)
NoPurchase == [id |-> 0, customer |-> "ghost", date |-> 0, gifted |-> FALSE]
PurchaseRow(rows, id) ==
    IF \E r \in rows : r.id = id THEN CHOOSE r \in rows : r.id = id ELSE NoPurchase

\* the workflow's write: set the flag and persist, which commits the session
PersistFlag(w, id, flag, op) ==
    /\ purchases' = SetGifted(CommitPurchases(session[w]), id, flag)
    /\ productQuantity' = CommitQuantity(session[w])
    /\ purchaseItems' = CommitItems(session[w])
    /\ session' = [session EXCEPT ![w] = EmptySession]
    /\ lastFlagOp' = [lastFlagOp EXCEPT ![id] = op]

\* OperationGiftPurchase.post (lines 207-209) calling gift_purchase
GiftRequest(w, id, requester) ==
    LET row == PurchaseRow(PurchasesSeen(session[w]), id)
        r == GiftResult(row.id = id, row.customer, requester, row.gifted)
    IN  /\ pc[w] = "idle"
        /\ resp' = Respond("gift", r, id, <<>>)
        /\ IF r = "ok"
           THEN PersistFlag(w, id, TRUE, "gift")
           ELSE UNCHANGED <<productQuantity, purchases, purchaseItems,
                            session, lastFlagOp>>
        /\ UNCHANGED <<productAvailability, pc, req, nextId>>

Gift(w) ==
    \E id \in PurchaseIds, requester \in Identities : GiftRequest(w, id, requester)

\* OperationUndoPurchase.post (lines 220-222) calling undo_purchase
UndoRequest(w, id, requester) ==
    LET row == PurchaseRow(PurchasesSeen(session[w]), id)
        r == UndoResult(row.id = id, row.customer, requester, row.gifted)
    IN  /\ pc[w] = "idle"
        /\ resp' = Respond("undo", r, id, <<>>)
        /\ IF r = "ok"
           THEN PersistFlag(w, id, FALSE, "undo")
           ELSE UNCHANGED <<productQuantity, purchases, purchaseItems,
                            session, lastFlagOp>>
        /\ UNCHANGED <<productAvailability, pc, req, nextId>>

Undo(w) ==
    \E id \in PurchaseIds, requester \in Identities : UndoRequest(w, id, requester)

\* ------------------------------------------------ OperationCheckPurchase.get
\* CheckResponse reporting the flag's default instead of the row's flag
CheckResponseDefaultFlag(purchase, customer) ==
    <<FALSE, purchase.date, customer.first, customer.last>>

\* lines 241-246: the response built from the Purchase and its Customer
CheckResponse(purchase, customer) ==
    <<purchase.gifted, purchase.date, customer.first, customer.last>>

\* CheckResult raising NotFound for the missing customer as well
CheckResultNotFoundOnly(found, resolved) ==
    IF ~found \/ ~resolved THEN "PurchaseNotFound" ELSE "ok"

\* lines 235-240: NotFound when the purchase is missing, InternalServerError
\* when its customer is
CheckResult(found, resolved) ==
    IF ~found THEN "PurchaseNotFound"
    ELSE IF ~resolved THEN "InternalServerError"
    ELSE "ok"

\* lines 234-247
CheckRequest(w, id) ==
    LET row == PurchaseRow(PurchasesSeen(session[w]), id)
        r == CheckResult(row.id = id, row.customer \in Customers)
    IN  /\ pc[w] = "idle"
        /\ resp' = IF r = "ok"
                   THEN Respond("check", "ok", id,
                                CheckResponse(row, CustomerTable[row.customer]))
                   ELSE Respond("check", r, id, <<>>)
        /\ UNCHANGED <<store, session, pc, req, nextId, lastFlagOp>>

Check(w) ==
    \E id \in PurchaseIds : CheckRequest(w, id)

Init ==
    /\ productQuantity \in [Products -> 0..MaxStock]
    /\ productAvailability \in Availabilities
    /\ purchases = {}
    /\ purchaseItems = {}
    /\ session = [w \in Workers |-> EmptySession]
    /\ pc = [w \in Workers |-> "idle"]
    /\ req = [w \in Workers |-> Idle]
    /\ resp = NoResponse
    /\ nextId = 1
    /\ lastFlagOp = [i \in PurchaseIds |-> "none"]

Next ==
    \/ \E w \in Workers : SubmitBegin(w)
    \/ \E w \in Workers : SubmitLine(w)
    \/ \E w \in Workers : SubmitCommit(w)
    \/ \E w \in Workers : Gift(w)
    \/ \E w \in Workers : Undo(w)
    \/ \E w \in Workers : Check(w)

Spec == Init /\ [][Next]_vars

\* ------------------------------------ a store that serialises row access
\* Product rows on which worker w has a write that is neither committed nor
\* discarded: the store keeps them for w until the session ends
RowsHeld(w) == {d.code : d \in session[w].dirty}

\* the query and update of one cart line (lines 100-113) wait while another
\* worker holds the Product row they touch
SubmitLineLocked(w) ==
    /\ pc[w] = "lines"
    /\ req[w].line <= Len(req[w].cart)
    /\ \A v \in Workers \ {w} :
          req[w].cart[req[w].line].product_code \notin RowsHeld(v)
    /\ SubmitLine(w)

NextLocks ==
    \/ \E w \in Workers : SubmitBegin(w)
    \/ \E w \in Workers : SubmitLineLocked(w)
    \/ \E w \in Workers : SubmitCommit(w)
    \/ \E w \in Workers : Gift(w)
    \/ \E w \in Workers : Undo(w)
    \/ \E w \in Workers : Check(w)

\* a handler that has started keeps running: each step of a submit that can
\* be taken is eventually taken.  Requests themselves arrive at will.
SpecLocks ==
    /\ Init
    /\ [][NextLocks]_vars
    /\ \A w \in Workers : WF_vars(SubmitLineLocked(w)) /\ WF_vars(SubmitCommit(w))

\* ----------------------------------- OperationCheckPurchase.get on any store
\* Purchase rows as the table may hold them.  The customer of a row may have
\* no Customer row left ("ghost"): the Customer table is written by handlers
\* outside this module.
PurchaseRows ==
    {r \in [id : PurchaseIds, customer : Identities,
            date : {100 + i : i \in PurchaseIds}, gifted : BOOLEAN] :
        r.date = 100 + r.id}
\* the Purchase tables: at most one row per purchase_code_uuid
PurchaseTables ==
    UNION {{{[id |-> i, customer |-> f[i].customer, date |-> 100 + i,
              gifted |-> f[i].gifted] : i \in ids} :
               f \in [ids -> [customer : Identities, gifted : BOOLEAN]]} :
           ids \in SUBSET PurchaseIds}

\* the tables and sessions the queries of lines 235 and 238 may run against:
\* any Purchase table, one PurchaseItem per purchase, and in the session of
\* one worker possibly a Purchase that was added and not committed
InitCheck ==
    /\ productQuantity \in [Products -> 0..MaxStock]
    /\ productAvailability \in Availabilities
    /\ purchases \in PurchaseTables
    /\ purchaseItems = {[purchase |-> r.id,
                         product |-> IF r.id = 1 THEN "A" ELSE "B",
                         quantity |-> 1] : r \in purchases}
    /\ \E staged \in {{}} \cup {{r} : r \in {q \in PurchaseRows :
                                                /\ q.customer \in Customers
                                                /\ ~q.gifted
                                                /\ \A x \in purchases : x.id # q.id}} :
          session = [w \in Workers |->
                        IF w = "w1" THEN [EmptySession EXCEPT !.new = staged]
                        ELSE EmptySession]
    /\ pc = [w \in Workers |-> "idle"]
    /\ req = [w \in Workers |-> Idle]
    /\ resp = NoResponse
    /\ nextId = MaxPurchases + 1
    /\ lastFlagOp = [i \in PurchaseIds |-> "none"]

NextCheck == \E w \in Workers : Check(w)

SpecCheck == InitCheck /\ [][NextCheck]_vars

\* ------------------------------------------------------------ properties
LineFailures ==
    {"ProductNotFound", "ProductUnavailable", "OutOfStock", "InsufficientStock"}

RECURSIVE SumQuantity(_)
SumQuantity(items) ==
    IF items = {} THEN 0
    ELSE LET i == CHOOSE i \in items : TRUE
         IN  i.quantity + SumQuantity(items \ {i})

\* a step of worker w inside OperationAPI.post
SubmitStep(w) ==
    /\ pc[w] = "lines" \/ pc'[w] = "lines"
    /\ pc'[w] # pc[w] \/ req'[w] # req[w]

\* the step in which worker w's submit returns
SubmitReturns(w) == pc[w] = "lines" /\ pc'[w] = "idle"

\* C1: all-or-nothing submit.  Every step of a submit other than its
\* successful return leaves the persisted store as it was, and when a submit
\* returns the failure of a cart line, the persisted store holds no Purchase
\* and no PurchaseItem of that call.
C1_AllOrNothing ==
    [][\A w \in Workers :
         /\ (SubmitStep(w) /\ ~(resp'.op = "submit" /\ resp'.result = "ok"))
               => UNCHANGED store
         /\ (SubmitReturns(w) /\ resp'.result \in LineFailures)
               => /\ \A r \in purchases' : r.id # req[w].purchase
                  /\ \A i \in purchaseItems' : i.purchase # req[w].purchase]_vars

\* C1 witness: a submit has failed on a later line after an earlier line of
\* the same cart was processed (its item is still staged in a session)
C1_Witness ==
    /\ resp.op = "submit"
    /\ resp.result = "ProductNotFound"
    /\ \E w \in Workers : \E i \in session[w].items : i.purchase = resp.purchase
    /\ \A r \in purchases : r.id # resp.purchase

\* C6: every persisted Product quantity is >= 0 in every reachable state
C6_StockNonNegative == \A p \in Products : productQuantity[p] >= 0

\* C6 witness: a product has been sold down to exactly zero
C6_Witness ==
    \E i \in purchaseItems : productQuantity[i.product] = 0 /\ i.quantity > 0

\* the quantity cart asks of product p
Requested(cart, p) ==
    SumQuantity({[line |-> i, quantity |-> cart[i].purchase_quantity] :
                    i \in {j \in 1..Len(cart) : cart[j].product_code = p}})

\* C2: a successful submit persists exactly one new Purchase (customer = the
\* caller, gifted = false, the returned id), exactly one new PurchaseItem per
\* cart line with the line's product code and quantity, reduces the quantity
\* of each product by exactly the quantity the cart asks of it and leaves the
\* other products unchanged.
C2_SubmitEffect ==
    [][\A w \in Workers :
         (SubmitReturns(w) /\ resp'.op = "submit" /\ resp'.result = "ok")
         => /\ resp'.purchase = req[w].purchase
            /\ purchases \subseteq purchases'
            /\ \E r \in purchases' :
                 /\ purchases' \ purchases = {r}
                 /\ r.id = req[w].purchase
                 /\ r.customer = req[w].customer
                 /\ r.customer \in Customers
                 /\ r.gifted = FALSE
            /\ purchaseItems \subseteq purchaseItems'
            /\ purchaseItems' \ purchaseItems =
                 {[purchase |-> req[w].purchase,
                   product |-> req[w].cart[i].product_code,
                   quantity |-> req[w].cart[i].purchase_quantity] :
                     i \in 1..Len(req[w].cart)}
            /\ Cardinality(purchaseItems' \ purchaseItems) = Len(req[w].cart)
            /\ \A p \in Products :
                 productQuantity'[p] = productQuantity[p] - Requested(req[w].cart, p)]_vars

\* a cart with a line whose quantity is <= 0
HasNonPositive(cart) == \E i \in 1..Len(cart) : cart[i].purchase_quantity <= 0

\* a cart in which a product code appears on more than one line
HasDuplicate(cart) ==
    \E i, j \in 1..Len(cart) : i # j /\ cart[i].product_code = cart[j].product_code

\* C3: every submit of a cart with a quantity <= 0 fails with InvalidQuantity
\* and persists nothing, whoever submits it and whatever the store holds
C3_InvalidQuantity ==
    [][\A w \in Workers, customer \in Identities, cart \in Carts :
         (HasNonPositive(cart) /\ SubmitRequest(w, customer, cart))
         => (resp'.result = "InvalidQuantity" /\ UNCHANGED <<store, session>>)]_vars

\* C4: every submit of a cart that repeats a product code, all quantities
\* > 0, fails with DuplicateProduct and changes no quantity and creates no
\* Purchase or PurchaseItem
C4_DuplicateProduct ==
    [][\A w \in Workers, customer \in Identities, cart \in Carts :
         (HasDuplicate(cart) /\ ~HasNonPositive(cart) /\ SubmitRequest(w, customer, cart))
         => (resp'.result = "DuplicateProduct" /\ UNCHANGED <<store, session>>)]_vars

\* C5: every submit by an identity without a Customer row fails with the
\* typed not-found error CustomerNotFound and persists nothing
C5_CustomerNotFound ==
    [][\A w \in Workers, customer \in Identities \ Customers, cart \in Carts :
         SubmitRequest(w, customer, cart)
         => (resp'.result = "CustomerNotFound" /\ UNCHANGED <<store, session>>)]_vars

\* C7: concurrent submits never take more than the stock.  The commit of a
\* successful submit lowers each persisted quantity by exactly what the
\* PurchaseItems it persists record, and leaves no quantity negative.
C7_ConcurrentSubmit ==
    [][(resp'.op = "submit" /\ resp'.result = "ok" /\ \E w \in Workers : SubmitReturns(w))
         => \A p \in Products :
              /\ productQuantity'[p] >= 0
              /\ productQuantity'[p] = productQuantity[p]
                    - SumQuantity({i \in purchaseItems' \ purchaseItems : i.product = p})]_vars

\* the gifted flag of purchase id among rows
Gifted(rows, id) == PurchaseRow(rows, id).gifted

\* C8: a gift by the owner of a purchase whose last successful workflow call
\* was a gift fails with AlreadyGifted and leaves gifted = true; an undo by
\* the owner of a purchase whose last successful workflow call was an undo
\* fails with NotGifted and leaves gifted = false.
C8_IdempotenceGuard ==
    [][/\ resp'.op = "gift" =>
            \A w \in Workers, requester \in Identities :
              LET id == resp'.purchase
                  row == PurchaseRow(PurchasesSeen(session[w]), id) IN
              (GiftRequest(w, id, requester)
                 /\ row.id = id /\ row.customer = requester /\ lastFlagOp[id] = "gift")
              => (resp'.result = "AlreadyGifted" /\ Gifted(purchases', id) = TRUE
                  /\ lastFlagOp'[id] = "gift")
       /\ resp'.op = "undo" =>
            \A w \in Workers, requester \in Identities :
              LET id == resp'.purchase
                  row == PurchaseRow(PurchasesSeen(session[w]), id) IN
              (UndoRequest(w, id, requester)
                 /\ row.id = id /\ row.customer = requester /\ lastFlagOp[id] = "undo")
              => (resp'.result = "NotGifted" /\ Gifted(purchases', id) = FALSE
                  /\ \E r \in purchases' : r.id = id
                  /\ lastFlagOp'[id] = "undo")]_vars

\* C8 witness: an undo has just been rejected with NotGifted on a purchase
\* whose last successful workflow call was an undo
C8_Witness ==
    /\ resp.op = "undo"
    /\ resp.result = "NotGifted"
    /\ lastFlagOp[resp.purchase] = "undo"

\* C9: a gift or an undo of an existing purchase by anyone but its customer
\* fails with NotOwner, gifted or not, and leaves the purchases as they were
C9_OwnershipGuard ==
    [][resp'.op \in {"gift", "undo"} =>
         \A w \in Workers, requester \in Identities :
           LET id == resp'.purchase
               row == PurchaseRow(PurchasesSeen(session[w]), id) IN
           (row.id = id /\ row.customer # requester
              /\ (GiftRequest(w, id, requester) \/ UndoRequest(w, id, requester)))
           => (resp'.result = "NotOwner"
               /\ UNCHANGED <<purchases, session, lastFlagOp>>)]_vars

\* C9 witness: a gift of a gifted purchase has just been rejected with NotOwner
C9_Witness ==
    /\ resp.op = "gift"
    /\ resp.result = "NotOwner"
    /\ Gifted(purchases, resp.purchase) = TRUE

\* every Purchase row, persisted or staged
AllPurchases == purchases \cup UNION {session[w].new : w \in Workers}

C11_GiftFlagMachine ==
    [][\A id \in PurchaseIds :
         LET before == PurchaseRow(AllPurchases, id)
             after == PurchaseRow(AllPurchases', id) IN
         /\ (before.id # id /\ after.id = id) => after.gifted = FALSE
         /\ (before.id = id /\ after.id = id /\ before.gifted # after.gifted)
              => /\ resp'.result = "ok"
                 /\ resp'.purchase = id
                 /\ \/ /\ resp'.op = "gift"
                       /\ before.gifted = FALSE
                       /\ \E w \in Workers : GiftRequest(w, id, before.customer)
                    \/ /\ resp'.op = "undo"
                       /\ before.gifted = TRUE
                       /\ \E w \in Workers : UndoRequest(w, id, before.customer)]_vars

\* C11 witness: a successful undo has just taken a persisted purchase back
\* to gifted = false while another purchase stays gifted
C11_Witness ==
    /\ resp.op = "undo"
    /\ resp.result = "ok"
    /\ \E r \in purchases : r.id = resp.purchase /\ r.gifted = FALSE
    /\ \E r \in purchases : r.id # resp.purchase /\ r.gifted = TRUE

\* C12: check is read-only and typed in its failures.  It answers
\* PurchaseNotFound when the query finds no Purchase of that id, the server
\* fault InternalServerError (not the not-found error) when the Purchase is
\* found and its customer has no Customer row, and otherwise the flag and
\* the date of the Purchase; in all three cases it leaves the Product,
\* Purchase and PurchaseItem tables and the session as they were.
C12_CheckTyped ==
    [][resp'.op = "check" =>
         \A w \in Workers :
           LET id == resp'.purchase
               rows == PurchasesSeen(session[w])
               found == \E r \in rows : r.id = id
               row == PurchaseRow(rows, id) IN
           CheckRequest(w, id)
           => /\ UNCHANGED <<store, session, lastFlagOp>>
              /\ ~found => resp'.result = "PurchaseNotFound"
              /\ (found /\ row.customer \notin Customers)
                    => resp'.result = "InternalServerError"
              /\ (found /\ row.customer \in Customers)
                    => /\ resp'.result = "ok"
                       /\ resp'.body[1] = row.gifted
                       /\ resp'.body[2] = row.date]_vars

\* C12 witness: check has just answered the server fault for a persisted
\* purchase whose customer has no Customer row
C12_Witness ==
    /\ resp.op = "check"
    /\ resp.result = "InternalServerError"
    /\ \E r \in purchases : r.id = resp.purchase /\ r.customer \notin Customers
    /\ purchaseItems # {}

\* C13: full rollback on every failing path.  When a submit returns the
\* failure of a cart line, the session holds none of the writes it staged,
\* and a Purchase row enters the persisted store only in the successful
\* return of the submit that created it.
C13_FullRollback ==
    [][\A w \in Workers :
         /\ (SubmitReturns(w) /\ resp'.result \in LineFailures)
               => session'[w] = EmptySession
         /\ \A r \in purchases' :
              (\A q \in purchases : q.id # r.id)
              => (resp'.op = "submit" /\ resp'.result = "ok"
                  /\ resp'.purchase = r.id)]_vars

\* the PurchaseItem submit stages for line j of the cart of worker w
LineItem(w, j) ==
    [purchase |-> req[w].purchase,
     product |-> req[w].cart[j].product_code,
     quantity |-> req[w].cart[j].purchase_quantity]

\* C14: line-check precedence.  submit takes the cart lines in cart order
\* and returns the error of the first line that fails; on one line it
\* answers ProductNotFound, else ProductUnavailable (whatever the stock),
\* else OutOfStock (stock <= 0, whatever the quantity asked), else
\* InsufficientStock (0 < stock < quantity asked), and the line passes
\* exactly when the product exists, is available and its stock, as the
\* query of line 100 returns it, is >= the quantity asked.
C14_LinePrecedence ==
    [][\A w \in Workers :
         /\ (SubmitStep(w) /\ pc[w] = "lines" /\ req[w].line <= Len(req[w].cart))
            => LET k == req[w].line
                   code == req[w].cart[k].product_code
                   wanted == req[w].cart[k].purchase_quantity
                   exists == code \in Products
                   available == exists /\ productAvailability[code]
                   stock == IF exists THEN QuantitySeen(session[w], code) ELSE 0
                   passes == pc'[w] = "lines" /\ req'[w].line = k + 1
                   fails(e) == /\ pc'[w] = "idle"
                               /\ resp'.op = "submit"
                               /\ resp'.result = e
               IN  /\ \A j \in 1..(k - 1) : LineItem(w, j) \in session[w].items
                   /\ ~exists => fails("ProductNotFound")
                   /\ (exists /\ ~available) => fails("ProductUnavailable")
                   /\ (exists /\ available /\ stock <= 0) => fails("OutOfStock")
                   /\ (exists /\ available /\ 0 < stock /\ stock < wanted)
                         => fails("InsufficientStock")
                   /\ passes <=> (exists /\ available /\ stock >= wanted)
                   /\ passes => LineItem(w, k) \in session'[w].items
         /\ (SubmitReturns(w) /\ resp'.result = "ok")
            => \A j \in 1..Len(req[w].cart) : LineItem(w, j) \in purchaseItems']_vars

\* C14 witness: a submit has just failed with ProductUnavailable on a
\* product that is unavailable and also has no stock
C14_Witness ==
    /\ resp.op = "submit"
    /\ resp.result = "ProductUnavailable"
    /\ \E p \in Products : ~productAvailability[p] /\ productQuantity[p] = 0

\* C15: precondition precedence.  Whoever submits, a cart with a quantity
\* <= 0 fails with InvalidQuantity, a cart of positive quantities that
\* repeats a product code fails with DuplicateProduct, CustomerNotFound is
\* answered only to carts that pass both cart checks, and a submit that
\* fails a precondition stages and persists nothing.
C15_PreconditionPrecedence ==
    [][resp'.op = "submit" =>
         \A w \in Workers, customer \in Identities, cart \in Carts :
           SubmitRequest(w, customer, cart)
           => /\ HasNonPositive(cart) => resp'.result = "InvalidQuantity"
              /\ (HasDuplicate(cart) /\ ~HasNonPositive(cart))
                    => resp'.result = "DuplicateProduct"
              /\ (~HasDuplicate(cart) /\ ~HasNonPositive(cart)
                    /\ customer \notin Customers)
                    => resp'.result = "CustomerNotFound"
              /\ resp'.result = "CustomerNotFound"
                    => (~HasDuplicate(cart) /\ ~HasNonPositive(cart))
              /\ UNCHANGED <<store, session>>]_vars

C18_StockConservation ==
    [][\A p \in Products :
         /\ productQuantity'[p] <= productQuantity[p]
         /\ productQuantity'[p] = productQuantity[p]
               - SumQuantity({i \in purchaseItems' \ purchaseItems : i.product = p})
         /\ productQuantity'[p] # productQuantity[p]
               => (resp'.op = "submit" /\ resp'.result = "ok")]_vars

\* C19: the persisted ledger is well formed.  Every persisted PurchaseItem
\* has quantity > 0 and references a persisted Purchase and a Product row,
\* and no two PurchaseItems of one Purchase reference the same Product.
C19_LedgerWellFormed ==
    \A i \in purchaseItems :
        /\ i.quantity > 0
        /\ i.product \in Products
        /\ \E r \in purchases : r.id = i.purchase
        /\ \A j \in purchaseItems :
              (j.purchase = i.purchase /\ j.product = i.product) => j = i

\* C19 witness: a persisted Purchase has PurchaseItems of two Products
C19_Witness ==
    \E i, j \in purchaseItems :
        /\ i.purchase = j.purchase
        /\ i.product # j.product
        /\ \E r \in purchases : r.id = i.purchase

\* C20: the empty cart.  A submit of the empty cart by an existing customer
\* passes the preconditions, takes no per-line step and succeeds; its
\* commit persists exactly one Purchase, of that customer, and no
\* PurchaseItem, and changes no Product quantity.
C20_EmptyCart ==
    [][\A w \in Workers :
         /\ \A customer \in Customers :
              SubmitRequest(w, customer, <<>>)
              => (pc'[w] = "lines" /\ resp' = NoResponse /\ UNCHANGED store)
         /\ (pc[w] = "lines" /\ req[w].cart = <<>> /\ SubmitStep(w))
              => /\ resp' = Respond("submit", "ok", req[w].purchase, <<>>)
                 /\ pc'[w] = "idle"
                 /\ \E r \in purchases' :
                      /\ purchases' = purchases \cup {r}
                      /\ r \notin purchases
                      /\ r.id = req[w].purchase
                      /\ r.customer = req[w].customer
                 /\ purchaseItems' = purchaseItems
                 /\ productQuantity' = productQuantity]_vars
====
